---------------------------- MODULE Spec2Model ----------------------------
(***************************************************************************)
(* Slidesager: the Marp document assembler (buildMarpContent), the slide   *)
(* range parser (parseSlideRanges), the slide filter (filterSlidesByRange) *)
(* and the download routes that use them; the generate route and the      *)
(* store behind it; render invocations in flight with their temp files;    *)
(* and the state of the Home page (Home, TextInputSection, PreviewSection).*)
(*                                                                         *)
(* A JavaScript string is a sequence of characters.  A character is a      *)
(* one-character TLA+ string ("-", " ", "\n", "1", ...).  A longer TLA+    *)
(* string inside a sequence ("<style>", ";\n  color:") is an atom: a run  *)
(* of literal characters of the source that contains no "---" and neither  *)
(* starts nor ends with whitespace or a dash, so that split("---") and     *)
(* trim() treat it exactly like one ordinary letter.                       *)
(***************************************************************************)
EXTENDS Integers, Sequences, FiniteSets, TLC

VARIABLES
    presentations,    \* MemStorage.presentations: id -> stored record
    generated,        \* per id, the slides the generate response returned
    request,          \* the last request the server handled
    rangeString,      \* the handler's argument to parseSlideRanges
    ranges,           \* SlideRange[] handed to generatePPTX / generatePDF
    filterLocals,     \* filterSlidesByRange: header, slideContents and the
                      \* sorted 0-based index array of the selected slides
    filteredContent,  \* generatePPTX / generatePDF: the local filteredContent
    response,         \* status of the last response
    responseBody,     \* what the last response carries
    service,          \* which of the repository's MarpService sources runs
    serverless,       \* what isServerlessEnvironment() returns
    render,           \* the render invocation of the handler of `request`
    now,              \* what Date.now() returns
    calls,            \* the render invocations made so far, in call order
    tempDir,          \* the files of <cwd>/temp: path -> content
    home,             \* state of the Home page component
    textInput,        \* state of the TextInputSection component
    preview           \* state of the PreviewSection component
\* rangeString, ranges, filterLocals, filteredContent and render are locals
\* of the handler of `request`: every handler starts with them unset.

\* The state of the route handlers.
routeVars == <<presentations, generated, request, rangeString, ranges,
               filterLocals, filteredContent, response, responseBody,
               service, serverless, render>>

\* The state of the render invocations that run side by side.
inFlightVars == <<now, calls, tempDir>>

\* The state of the client's components.
clientVars == <<home, textInput, preview>>

vars == <<routeVars, inFlightVars, clientVars>>

-----------------------------------------------------------------------------
(* Bounds of the model *)

\* slides per generated presentation
MaxSlides == 2

\* ranges per range list handed to the filter
MaxRanges == 2

\* characters per enumerated range expression
MaxExprLen == 4

\* records the store holds at once
MaxPresentations == 1

\* characters per enumerated raw Document handed to the filter
MaxDocLen == 3

\* stderr 'data' events per render process
MaxChunks == 2

\* render invocations made side by side
MaxCalls == 2

-----------------------------------------------------------------------------
(* JavaScript string primitives *)

NL == "\n"
SP == " "
DASH == "-"

Whitespace == {SP, NL}

Delimiter == <<DASH, DASH, DASH>>

RECURSIVE TrimStart(_)
TrimStart(s) ==
    IF s # <<>> /\ Head(s) \in Whitespace THEN TrimStart(Tail(s)) ELSE s

RECURSIVE TrimEnd(_)
TrimEnd(s) ==
    IF s # <<>> /\ s[Len(s)] \in Whitespace
    THEN TrimEnd(SubSeq(s, 1, Len(s) - 1))
    ELSE s

\* String.prototype.trim
Trim(s) == TrimEnd(TrimStart(s))

\* s holds sep at index i
MatchAt(s, sep, i) ==
    /\ i + Len(sep) - 1 <= Len(s)
    /\ \A k \in 1..Len(sep) : s[i + k - 1] = sep[k]

\* Every index of s where sep occurs (overlapping occurrences included)
Occurrences(s, sep) == { i \in 1..Len(s) : MatchAt(s, sep, i) }

\* The pieces of s from index start on, cut at the leftmost occurrence at
\* or after start, then at the leftmost one after that occurrence's end.
RECURSIVE SplitFrom(_, _, _, _)
SplitFrom(s, sep, found, start) ==
    LET ahead == { i \in found : i >= start }
    IN  IF ahead = {}
        THEN <<SubSeq(s, start, Len(s))>>
        ELSE LET i == CHOOSE x \in ahead : \A y \in ahead : x <= y
             IN  <<SubSeq(s, start, i - 1)>>
                 \o SplitFrom(s, sep, found, i + Len(sep))

\* String.prototype.split(sep) for a non-empty separator: leftmost,
\* non-overlapping matches; empty pieces are kept.
Split(s, sep) == SplitFrom(s, sep, Occurrences(s, sep), 1)

\* String.prototype.includes
Includes(s, sep) == Len(Split(s, sep)) > 1

\* Array.prototype.join
RECURSIVE Join(_, _)
Join(blocks, sep) ==
    IF blocks = <<>> THEN <<>>
    ELSE IF Len(blocks) = 1 THEN blocks[1]
    ELSE blocks[1] \o sep \o Join(Tail(blocks), sep)

\* Array.prototype.map(s => s.trim())
MapTrim(pieces) == [k \in 1..Len(pieces) |-> Trim(pieces[k])]

IsPrefix(p, s) == Len(p) <= Len(s) /\ SubSeq(s, 1, Len(p)) = p

Digits == {"0", "1", "2", "3", "4", "5", "6", "7", "8", "9"}

DigitValue(c) ==
    CASE c = "0" -> 0 [] c = "1" -> 1 [] c = "2" -> 2 [] c = "3" -> 3
      [] c = "4" -> 4 [] c = "5" -> 5 [] c = "6" -> 6 [] c = "7" -> 7
      [] c = "8" -> 8 [] c = "9" -> 9

RECURSIVE DigitRun(_)
DigitRun(s) ==
    IF s # <<>> /\ Head(s) \in Digits THEN <<Head(s)>> \o DigitRun(Tail(s))
    ELSE <<>>

RECURSIVE DecimalValue(_)
DecimalValue(ds) ==
    IF ds = <<>> THEN 0
    ELSE 10 * DecimalValue(SubSeq(ds, 1, Len(ds) - 1)) + DigitValue(ds[Len(ds)])

\* parseInt(s) without a radix on decimal input: leading whitespace is
\* skipped, one sign is taken, then the longest run of digits; whatever
\* follows the digits is ignored, and no digit at all gives NaN.
parseInt(s) ==
    LET t == TrimStart(s)
        signed == t # <<>> /\ Head(t) \in {"+", DASH}
        body == IF signed THEN Tail(t) ELSE t
        ds == DigitRun(body)
        magnitude == DecimalValue(ds)
    IN  IF ds = <<>> THEN [isNaN |-> TRUE, value |-> 0]
        ELSE [isNaN |-> FALSE,
              value |-> IF signed /\ Head(t) = DASH THEN 0 - magnitude
                        ELSE magnitude]


-----------------------------------------------------------------------------
(* templateAnalyzer.analyzeTemplate and the route's default: both return   *)
(* the same colours and fonts.                                             *)

DefaultStyles ==
    [colors |-> [primary |-> <<"#2563eb">>, secondary |-> <<"#7c3aed">>,
                 background |-> <<"#ffffff">>, text |-> <<"#1f2937">>],
     fonts |-> [title |-> <<"Inter, sans-serif">>,
                body |-> <<"Inter, sans-serif">>]]

FallbackTitle == <<"Generated Presentation">>

-----------------------------------------------------------------------------
(* MarpService: the document assembler *)

generateTheme(styles) ==
    <<NL, "section {\n  background:", SP>> \o styles.colors.background
    \o <<";\n  color:", SP>> \o styles.colors.text
    \o <<";\n  font-family:", SP>> \o styles.fonts.body
    \o <<";\n}\n\nh1, h2, h3, h4, h5, h6 {\n  color:", SP>>
    \o styles.colors.primary
    \o <<";\n  font-family:", SP>> \o styles.fonts.title
    \o <<";\n}\n\na {\n  color:", SP>> \o styles.colors.secondary
    \o <<";\n}\n\nblockquote {\n  border-left: 4px solid", SP>>
    \o styles.colors.primary
    \o <<";\n  background: rgba(0, 0, 0, 0.05);\n}", NL>>

\* The front matter the template literal opens with, fences included.
Metadata(title) ==
    <<DASH, DASH, DASH, NL,
      "marp: true\ntheme: custom\npaginate: true\ntitle:", SP>>
    \o title \o <<NL, DASH, DASH, DASH, NL>>

\* The generated style rules that follow the front matter.
StyleRules(styles) ==
    <<"<style>", NL>> \o generateTheme(styles) \o <<NL, "</style>", NL>>

\* The whole text buildMarpContent emits before the first slide.
HeaderText(styles, title) ==
    Metadata(title) \o <<NL>> \o StyleRules(styles) \o <<NL>>

\* NotesTruthy with the test written `slide.notes !== undefined`
NotesPresent(slide) == slide.hasNotes

\* `if (slide.notes)`: present and not the empty string.
NotesTruthy(slide) == slide.hasNotes /\ slide.notes # <<>>

\* What one iteration of slides.forEach appends for the slide itself.
SlideText(slide) ==
    <<"#", SP>> \o slide.title \o <<NL, NL>>
    \o slide.content \o <<NL>>
    \o (IF NotesTruthy(slide)
        THEN <<NL, "<", "!", DASH, DASH, SP>> \o slide.notes
             \o <<SP, DASH, DASH, ">", NL>>
        ELSE <<>>)

\* The text appended between two slides: "\n---\n\n".
SlideSeparator == <<NL, DASH, DASH, DASH, NL, NL>>

RECURSIVE AppendSlides(_, _, _)
AppendSlides(marpContent, slides, index) ==
    IF index > Len(slides) THEN marpContent
    ELSE AppendSlides(
            marpContent
            \o (IF index > 1 THEN SlideSeparator ELSE <<>>)
            \o SlideText(slides[index]),
            slides, index + 1)

buildMarpContent(slides, styles, title) ==
    AppendSlides(HeaderText(styles, title), slides, 1)

-----------------------------------------------------------------------------
(* MarpService: the range parser *)

\* One comma-separated token, already trimmed: the ranges it pushes.
ParsePart(part) ==
    IF Includes(part, <<DASH>>)
    THEN LET pieces == Split(part, <<DASH>>)
             start == parseInt(Trim(pieces[1]))
             end == parseInt(Trim(pieces[2]))
         IN  IF ~start.isNaN /\ ~end.isNaN /\ start.value <= end.value
             THEN <<[start |-> start.value, end |-> end.value]>>
             ELSE <<>>
    ELSE LET num == parseInt(part)
         IN  IF ~num.isNaN
             THEN <<[start |-> num.value, end |-> num.value]>>
             ELSE <<>>

RECURSIVE ParseParts(_)
ParseParts(parts) ==
    IF parts = <<>> THEN <<>>
    ELSE ParsePart(Head(parts)) \o ParseParts(Tail(parts))

parseSlideRanges(str) ==
    IF Trim(str) = <<>> THEN <<>>
    ELSE ParseParts(MapTrim(Split(str, <<",">>)))

-----------------------------------------------------------------------------
(* MarpService: the slide filter *)

\* split("---") without the trim of each block
SplitBlocksUntrimmed(marpContent) ==
    SelectSeq(Split(marpContent, Delimiter), LAMBDA s : Len(s) > 0)

\* marpContent.split("---").map(s => s.trim()).filter(s => s.length > 0)
SplitBlocks(marpContent) ==
    SelectSeq(MapTrim(Split(marpContent, Delimiter)), LAMBDA s : Len(s) > 0)

\* Set.prototype.add on a Set kept in insertion order.
SetAdd(set, x) ==
    IF \E k \in 1..Len(set) : set[k] = x THEN set ELSE Append(set, x)

\* RangeLoop with the upper test written `i < slideContents.length`
RECURSIVE RangeLoopOffByOne(_, _, _, _)
RangeLoopOffByOne(set, i, end, count) ==
    IF i > end THEN set
    ELSE RangeLoopOffByOne(
            IF i > 0 /\ i < count THEN SetAdd(set, i - 1) ELSE set,
            i + 1, end, count)

\* for (let i = range.start; i <= range.end; i++) { ... }
RECURSIVE RangeLoop(_, _, _, _)
RangeLoop(set, i, end, count) ==
    IF i > end THEN set
    ELSE RangeLoop(IF i > 0 /\ i <= count THEN SetAdd(set, i - 1) ELSE set,
                   i + 1, end, count)

\* ranges.forEach(range => ...)
RECURSIVE ForEachRange(_, _, _)
ForEachRange(set, rs, count) ==
    IF rs = <<>> THEN set
    ELSE ForEachRange(RangeLoop(set, Head(rs).start, Head(rs).end, count),
                      Tail(rs), count)

RECURSIVE InsertSorted(_, _)
InsertSorted(x, sorted) ==
    IF sorted = <<>> THEN <<x>>
    ELSE IF x - Head(sorted) <= 0 THEN <<x>> \o sorted
    ELSE <<Head(sorted)>> \o InsertSorted(x, Tail(sorted))

\* Array.prototype.sort((a, b) => a - b)
RECURSIVE SortNumeric(_)
SortNumeric(a) ==
    IF a = <<>> THEN <<>>
    ELSE InsertSorted(Head(a), SortNumeric(Tail(a)))

\* SelectedIndices with the .sort(...) call left out
SelectedIndicesUnsorted(rs, count) == ForEachRange(<<>>, rs, count)

\* Array.from(selectedSlides).sort((a, b) => a - b): 0-based indices
SelectedIndices(rs, count) == SortNumeric(ForEachRange(<<>>, rs, count))

\* FilterHeader with the missing block printed by string concatenation
FilterHeaderAsText(blocks) ==
    IF blocks = <<>> THEN <<"undefined">> ELSE blocks[1]

\* slides[0]: undefined when there is no block; join() prints undefined
\* as the empty string.
FilterHeader(blocks) == IF blocks = <<>> THEN <<>> ELSE blocks[1]

\* slides.slice(1)
SlideContents(blocks) == IF blocks = <<>> THEN <<>> ELSE Tail(blocks)

\* The separator filterSlidesByRange joins with: "\n\n---\n\n".
JoinSeparator == <<NL, NL, DASH, DASH, DASH, NL, NL>>

\* filterSlidesByRange after its first statement: its locals and the
\* string it returns, from the blocks the split produced.
FilterBlocks(slides, rs) ==
    LET header == FilterHeader(slides)
        slideContents == SlideContents(slides)
        indices == SelectedIndices(rs, Len(slideContents))
        filteredSlides ==
            [k \in 1..Len(indices) |-> slideContents[indices[k] + 1]]
    IN  [header |-> header,
         slideContents |-> slideContents,
         indices |-> indices,
         result |-> Join(<<header>> \o filteredSlides, JoinSeparator)]

filterSlidesByRange(marpContent, rs) ==
    FilterBlocks(SplitBlocks(marpContent), rs).result

\* The locals of a handler that does not run the filter.
NoLocals == [header |-> <<>>, slideContents |-> <<>>, indices |-> <<>>]

\* FilteredContent with the test written `if (slideRanges)`
FilteredContentNoLengthTest(marpContent, slideRanges) ==
    IF slideRanges.defined
    THEN LET out == FilterBlocks(SplitBlocks(marpContent), slideRanges.list)
         IN  [content |-> out.result,
              locals |-> [header |-> out.header,
                          slideContents |-> out.slideContents,
                          indices |-> out.indices]]
    ELSE [content |-> marpContent, locals |-> NoLocals]

\* generatePPTX / generatePDF, "Filter slides if ranges specified": the
\* content written to the input file, with the locals of the filter when
\* it runs.
FilteredContent(marpContent, slideRanges) ==
    IF slideRanges.defined /\ Len(slideRanges.list) > 0
    THEN LET out == FilterBlocks(SplitBlocks(marpContent), slideRanges.list)
         IN  [content |-> out.result,
              locals |-> [header |-> out.header,
                          slideContents |-> out.slideContents,
                          indices |-> out.indices]]
    ELSE [content |-> marpContent, locals |-> NoLocals]

-----------------------------------------------------------------------------
(* MarpService: the render operations generateHTML, generatePPTX and       *)
(* generatePDF.  The repository holds three sources of the class: marp.ts, *)
(* a second one that also collects the tool's stdout and stderr, and a     *)
(* third one that also tests isServerlessEnvironment().                    *)

ServiceVersions == {"marp", "collecting", "serverless"}

RenderOps == {"html", "pptx", "pdf"}

\* Exit statuses of the Marp CLI process
ExitCodes == {0, 1, 2}

\* What the tool may write to stderr in one 'data' event
StderrChunks == {"e1", "e2"}

CodeText(code) == CASE code = 0 -> "0" [] code = 1 -> "1" [] code = 2 -> "2"

\* The invocation before it is called.
RenderIdle ==
    [op |-> "none", phase |-> "idle", inputWritten |-> FALSE,
     spawned |-> FALSE, toolStderr |-> <<>>, stderr |-> <<>>,
     exitCode |-> -1, outcome |-> "pending", message |-> <<>>]

\* `if (this.isServerlessEnvironment())` at the head of the third source
ChecksServerless(version) == version = "serverless"

\* `let stderr = ''; marp.stderr?.on('data', ...)`: second and third source
CollectsStderr(version) == version \in {"collecting", "serverless"}

\* new Error("PPTX generation is not available in serverless environments. ...")
UnavailableMessage(op) ==
    <<(IF op = "pptx" THEN "PPTX" ELSE "PDF"), SP,
      "generation is not available in serverless environments.">>

\* new Error(`Marp CLI exited with code ${code}`), with `. Stderr: ${stderr}`
\* in the sources that collect stderr
ExitMessage(version, code, stderr) ==
    <<"Marp CLI exited with code", SP, CodeText(code)>>
    \o (IF CollectsStderr(version)
        THEN <<".", SP, "Stderr:", SP>> \o stderr ELSE <<>>)

\* The error objects of fs and child_process, handed to reject unchanged.
SetupErrorMessage == <<"mkdir or writeFile failed">>

SpawnErrorMessage == <<"spawn failed">>

ReadErrorMessage == <<"readFile failed">>

\* The call up to the spawn: the serverless test, mkdir and writeFile of
\* the input file, spawn of the Marp CLI.
RenderStart(version, isServerless, op, setupOk) ==
    IF ChecksServerless(version) /\ isServerless
    THEN IF op = "html"
         THEN [RenderIdle EXCEPT !.op = op, !.phase = "settled",
                                 !.outcome = "resolved"]
         ELSE [RenderIdle EXCEPT !.op = op, !.phase = "settled",
                                 !.outcome = "rejected",
                                 !.message = UnavailableMessage(op)]
    ELSE IF setupOk
         THEN [RenderIdle EXCEPT !.op = op, !.phase = "running",
                                 !.inputWritten = TRUE, !.spawned = TRUE]
         ELSE [RenderIdle EXCEPT !.op = op, !.phase = "settled",
                                 !.outcome = "rejected",
                                 !.message = SetupErrorMessage]

\* The tool writes chunk to stderr.
RenderData(r, version, chunk) ==
    [r EXCEPT !.toolStderr = Append(@, chunk),
              !.stderr = IF CollectsStderr(version) THEN Append(@, chunk)
                         ELSE @]

\* marp.on("close", async (code) => ...)
RenderClose(r, version, code, readOk) ==
    [r EXCEPT !.phase = "settled",
              !.exitCode = code,
              !.outcome = IF code = 0 /\ readOk THEN "resolved"
                          ELSE "rejected",
              !.message = IF code = 0
                          THEN IF readOk THEN <<>> ELSE ReadErrorMessage
                          ELSE ExitMessage(version, code, r.stderr)]

\* marp.on("error", reject)
RenderError(r) ==
    [r EXCEPT !.phase = "settled", !.outcome = "rejected",
              !.message = SpawnErrorMessage]

\* One whole invocation: what the setup, the tool and the read of the
\* output do.
RenderScenarios ==
    { [setupOk |-> TRUE, chunks |-> <<>>, code |-> 0, readOk |-> TRUE],
      [setupOk |-> TRUE, chunks |-> <<"e1">>, code |-> 1, readOk |-> TRUE] }

RECURSIVE RenderAllData(_, _, _)
RenderAllData(r, version, chunks) ==
    IF chunks = <<>> THEN r
    ELSE RenderAllData(RenderData(r, version, Head(chunks)), version,
                       Tail(chunks))

\* The invocation from call to settlement under one scenario.
RunRender(version, isServerless, op, scenario) ==
    LET started == RenderStart(version, isServerless, op, scenario.setupOk)
    IN  IF started.phase = "settled" THEN started
        ELSE RenderClose(RenderAllData(started, version, scenario.chunks),
                         version, scenario.code, scenario.readOk)

\* The response of the route that awaited the invocation: the output, or
\* status 500 with { error: error.message }.
NoBody == [kind |-> "none", message |-> <<>>, records |-> {}]

RenderStatus(r) == IF r.outcome = "resolved" THEN 200 ELSE 500

RenderBody(r) ==
    IF r.outcome = "resolved" THEN [NoBody EXCEPT !.kind = "file"]
    ELSE [NoBody EXCEPT !.kind = "error", !.message = r.message]

NotFoundBody ==
    [NoBody EXCEPT !.kind = "error", !.message = <<"Presentation not found">>]

-----------------------------------------------------------------------------
(* Inputs *)

\* Slides the generation collaborator may return: plain text with notes,
\* plain text without notes, and a body holding a Markdown table rule.
SlidePool ==
    { [title |-> <<"A">>, content |-> <<"x">>, layout |-> "title",
       hasNotes |-> TRUE, notes |-> <<"n">>],
      [title |-> <<"B">>, content |-> <<"y">>, layout |-> "content",
       hasNotes |-> FALSE, notes |-> <<>>],
      [title |-> <<"C">>, content |-> <<"|", DASH, DASH, DASH, "|">>,
       layout |-> "content", hasNotes |-> TRUE, notes |-> <<>>] }

\* One answer of the generation collaborator holding every slide of the
\* pool: notes, notes that are the empty string, no notes.
CollaboratorAnswer ==
    << [title |-> <<"A">>, content |-> <<"x">>, layout |-> "title",
        hasNotes |-> TRUE, notes |-> <<"n">>],
       [title |-> <<"C">>, content |-> <<"|", DASH, DASH, DASH, "|">>,
        layout |-> "content", hasNotes |-> TRUE, notes |-> <<>>],
       [title |-> <<"B">>, content |-> <<"y">>, layout |-> "content",
        hasNotes |-> FALSE, notes |-> <<>>] >>

SeqsUpTo(S, n) == UNION { [1..k -> S] : k \in 0..n }

\* The decks the generation collaborator returns: up to MaxSlides slides,
\* no slide twice.
SlideSeqs ==
    { deck \in SeqsUpTo(SlidePool, MaxSlides) :
        \A j, k \in 1..Len(deck) : j # k => deck[j] # deck[k] }

\* Slide positions a range may name: from 0 to one past the largest deck.
Positions == 0..(MaxSlides + 1)

SlideRanges == { [start |-> a, end |-> b] : a \in Positions, b \in Positions }

\* Range lists as the parser builds them: start <= end in every range.
RangeLists ==
    { rs \in SeqsUpTo({ r \in SlideRanges : r.start <= r.end }, MaxRanges) :
        rs # <<>> }

ExprAlphabet == {"0", "1", "2", "a", ",", DASH, SP}

\* The expressions of the specification's examples, beside the enumerated ones.
ExampleExprs ==
    { <<"a", ",", SP, "2", DASH, "1", ",", SP, "3">>,
      <<"5", ",", "1", DASH, "2">>,
      <<"1", DASH, "1", "0", "0">>,
      <<"1", DASH, "2", DASH, "3">>,
      <<"1", SP, DASH, SP, "3", ",", SP, "5">> }

RangeStrings == SeqsUpTo(ExprAlphabet, MaxExprLen) \cup ExampleExprs

\* The slideRanges field of a download request body: absent, or a string.
RequestRanges ==
    { [present |-> FALSE, text |-> <<>>] }
    \cup { [present |-> TRUE, text |-> t] :
             t \in { <<>>, <<SP>>, <<SP, NL>>, <<"1">>, <<"2">>,
                     <<"2", ",", "1">>, <<"a">>, <<"9">> } }

\* The decks a generate request gets from the collaborator: the answer cut
\* to each slide count up to MaxSlides (slideCountOption), none included.
GeneratedDecks ==
    { deck \in SlideSeqs :
        /\ Len(deck) <= Len(CollaboratorAnswer)
        /\ deck = SubSeq(CollaboratorAnswer, 1, Len(deck)) }

Ids == 1..MaxPresentations

\* req.body.apiKey values: absent, and two different keys
ApiKeys == {<<>>, <<"sk-1">>, <<"sk-2">>}

\* The form the client submits with every field filled in.
CompleteForm ==
    [content |-> <<"text">>, guidance |-> <<>>, llmProvider |-> "openai",
     model |-> "gpt-5", apiKey |-> <<"sk-1">>]

\* req.body of POST /api/presentations/generate: the complete form under
\* each key, and the form with the content or the key missing.
GenerateForms ==
    { [CompleteForm EXCEPT !.apiKey = k] : k \in ApiKeys }
    \cup { [CompleteForm EXCEPT !.content = <<>>] }

\* req.file: no template, or an uploaded one whose analysis returns the
\* styles or throws (analyzeTemplate's catch path).
TemplateFiles == {"none", "analysed", "rejected"}

\* What the provider's SDK call gives generateWithOpenAI: a thrown Error,
\* a thrown value that is no Error, no content, text that is not JSON, or a
\* JSON array of slides (possibly empty).
ProviderReplies ==
    { [kind |-> k, slides |-> <<>>] :
        k \in {"error", "thrown", "empty", "notjson"} }
    \cup { [kind |-> "array", slides |-> deck] : deck \in GeneratedDecks }

\* A request without a form, a template file or a call of the provider.
NoForm ==
    [content |-> <<>>, guidance |-> <<>>, llmProvider |-> "", model |-> "",
     apiKey |-> <<>>]

NoReply == [kind |-> "none", slides |-> <<>>]

NoRequest ==
    [route |-> "none", id |-> 0,
     slideRanges |-> [present |-> FALSE, text |-> <<>>],
     form |-> NoForm, file |-> "none", reply |-> NoReply]

NoRanges == [defined |-> FALSE, list |-> <<>>]

-----------------------------------------------------------------------------
(* MemStorage *)

\* this.presentations.get(id): whether an entry exists
HasPresentation(store, id) == id \in DOMAIN store

\* this.presentations.set(id, presentation)
\* with presentation = { ...insertPresentation, id, ... }; createdAt is not
\* modelled.
createPresentation(store, id, insertPresentation) ==
    [k \in DOMAIN store \cup {id} |->
        IF k = id
        THEN [f \in DOMAIN insertPresentation \cup {"id"} |->
                 IF f = "id" THEN id ELSE insertPresentation[f]]
        ELSE store[k]]

\* deletePresentation that leaves the Map as it is
deletePresentationKeeping(store, id) == store

\* this.presentations.delete(id)
deletePresentation(store, id) == [k \in DOMAIN store \ {id} |-> store[k]]

EmptyStore == [k \in {} |-> 0]

-----------------------------------------------------------------------------
(* Routes *)

\* slides[0]?.title || "Generated Presentation"
PresentationTitle(slides) ==
    IF slides # <<>> /\ slides[1].title # <<>> THEN slides[1].title
    ELSE FallbackTitle

\* A record that spreads the whole request body into what is stored
InsertPresentationWithBody(form, slides) ==
    [title |-> PresentationTitle(slides),
     content |-> form.content,
     guidance |-> form.guidance,
     llmProvider |-> form.llmProvider,
     model |-> form.model,
     apiKey |-> form.apiKey,
     slideCount |-> Len(slides),
     templateStyles |-> DefaultStyles,
     marpContent |->
        buildMarpContent(slides, DefaultStyles, PresentationTitle(slides))]

\* What POST /api/presentations/generate hands to storage.createPresentation.
InsertPresentation(form, slides) ==
    [title |-> PresentationTitle(slides),
     content |-> form.content,
     guidance |-> form.guidance,
     llmProvider |-> form.llmProvider,
     model |-> form.model,
     slideCount |-> Len(slides),
     templateStyles |-> DefaultStyles,
     marpContent |->
        buildMarpContent(slides, DefaultStyles, PresentationTitle(slides))]

\* slideRanges ? marpService.parseSlideRanges(slideRanges) : undefined
RouteRanges(body) ==
    IF body.present /\ body.text # <<>>
    THEN [defined |-> TRUE, list |-> parseSlideRanges(body.text)]
    ELSE NoRanges

\* The response bodies that carry stored records.
RecordsBody(kind, records) ==
    [NoBody EXCEPT !.kind = kind, !.records = records]

\* !content || !llmProvider || !model || !apiKey
MissingFields(form) ==
    \/ form.content = <<>>
    \/ form.llmProvider = ""
    \/ form.model = ""
    \/ form.apiKey = <<>>

MissingFieldsMessage ==
    <<"Missing required fields: content, llmProvider, model, apiKey">>

\* new Error("Failed to analyze PowerPoint template")
TemplateErrorMessage == <<"Failed to analyze PowerPoint template">>

\* The message of the Error the provider's SDK throws.
ProviderErrorMessage == <<"provider error">>

\* error instanceof Error ? error.message : "Failed to generate presentation"
FallbackErrorMessage == <<"Failed to generate presentation">>

\* A collaborator that answers an empty deck where the source throws
generateSlidesLenient(reply) ==
    [threw |-> FALSE, message |-> <<>>, slides |-> reply.slides]

\* llmService.generateSlides -> generateWithOpenAI: the slides, or the
\* error the route's catch receives.
generateSlides(reply) ==
    LET throw(message) ==
            [threw |-> TRUE, message |-> message, slides |-> <<>>]
    IN  CASE reply.kind = "error" -> throw(ProviderErrorMessage)
          [] reply.kind = "thrown" -> throw(FallbackErrorMessage)
          [] reply.kind = "empty" ->
                throw(<<"No content received from OpenAI">>)
          [] reply.kind = "notjson" ->
                throw(<<"Invalid JSON response from OpenAI: ",
                        "Unexpected token">>)
          [] reply.kind = "array" /\ reply.slides = <<>> ->
                throw(<<"No slides generated from OpenAI response">>)
          [] OTHER ->
                [threw |-> FALSE, message |-> <<>>, slides |-> reply.slides]

\* The step of the handler that ended the request early, computed in the
\* order of the source: the field test, the template analysis, the
\* collaborator.
GenerateFailure(form, file, reply) ==
    IF MissingFields(form) THEN "fields"
    ELSE IF file = "rejected" THEN "template"
    ELSE IF generateSlides(reply).threw THEN "collaborator"
    ELSE "none"

\* res.json({ id, title, slideCount, slides, marpContent, createdAt })
GenerateResponse(presentation, slides) ==
    [id |-> presentation.id,
     title |-> presentation.title,
     slideCount |-> presentation.slideCount,
     slides |-> slides,
     marpContent |-> presentation.marpContent]

\* res.status(status).json({ error: message })
ErrorBody(message) == [NoBody EXCEPT !.kind = "error", !.message = message]

\* POST /api/presentations/generate with the form, the template file and
\* the provider's reply
Generate(id, form, file, reply) ==
    LET failed == GenerateFailure(form, file, reply)
        slides == generateSlides(reply).slides
    IN  /\ request' = [NoRequest EXCEPT !.route = "generate",
                                        !.id = IF failed = "none" THEN id
                                               ELSE 0,
                                        !.form = form,
                                        !.file = file,
                                        !.reply =
                                            IF failed \in {"fields", "template"}
                                            THEN NoReply ELSE reply]
        /\ CASE failed = "fields" ->
                   /\ response' = 400
                   /\ responseBody' = ErrorBody(MissingFieldsMessage)
                   /\ UNCHANGED <<presentations, generated>>
              [] failed = "template" ->
                   /\ response' = 500
                   /\ responseBody' = ErrorBody(TemplateErrorMessage)
                   /\ UNCHANGED <<presentations, generated>>
              [] failed = "collaborator" ->
                   /\ response' = 500
                   /\ responseBody' = ErrorBody(generateSlides(reply).message)
                   /\ UNCHANGED <<presentations, generated>>
              [] OTHER ->
                   /\ Cardinality(DOMAIN presentations) < MaxPresentations
                   /\ ~HasPresentation(presentations, id)
                   /\ presentations' =
                         createPresentation(presentations, id,
                             InsertPresentation(form, slides))
                   /\ generated' =
                         [k \in DOMAIN generated \cup {id} |->
                             IF k = id THEN slides ELSE generated[k]]
                   /\ response' = 200
                   /\ responseBody' =
                         RecordsBody("generated",
                             {GenerateResponse(presentations'[id], slides)})
        /\ rangeString' = <<>>
        /\ ranges' = NoRanges
        /\ filterLocals' = NoLocals
        /\ filteredContent' = <<>>
        /\ render' = RenderIdle
        /\ UNCHANGED <<service, serverless, inFlightVars,
                   clientVars>>

\* Download that saves the filtered Document in the record
DownloadStoringFiltered(kind, id, requestBody) ==
    /\ HasPresentation(presentations, id)
    /\ request' = [NoRequest EXCEPT !.route = kind, !.id = id,
                                    !.slideRanges = requestBody]
    /\ LET parsed == RouteRanges(requestBody)
           written == FilteredContent(presentations[id].marpContent, parsed)
       IN  /\ rangeString' = <<>>
           /\ ranges' = parsed
           /\ filterLocals' = written.locals
           /\ filteredContent' = written.content
           /\ presentations' =
                 [presentations EXCEPT ![id].marpContent = written.content]
    /\ render' = RenderIdle
    /\ response' = 200
    /\ responseBody' = [NoBody EXCEPT !.kind = "file"]
    /\ UNCHANGED <<generated, service, serverless, inFlightVars,
                   clientVars>>

\* POST /api/presentations/:id/download/pptx and .../pdf: the two handlers
\* differ in the renderer they call, not in what they do to the Document.
Download(kind, id, requestBody) ==
    /\ request' = [NoRequest EXCEPT !.route = kind, !.id = id,
                                    !.slideRanges = requestBody]
    /\ IF ~HasPresentation(presentations, id)
       THEN /\ response' = 404
            /\ responseBody' = NotFoundBody
            /\ rangeString' = <<>>
            /\ ranges' = NoRanges
            /\ filterLocals' = NoLocals
            /\ filteredContent' = <<>>
            /\ render' = RenderIdle
       ELSE LET parsed == RouteRanges(requestBody)
                failsFast == ChecksServerless(service) /\ serverless
                written ==
                    IF failsFast
                    THEN [content |-> <<>>, locals |-> NoLocals]
                    ELSE FilteredContent(presentations[id].marpContent,
                                         parsed)
            IN  \E scenario \in RenderScenarios :
                  LET r == RunRender(service, serverless, kind, scenario)
                  IN  /\ rangeString' =
                            IF requestBody.present /\ requestBody.text # <<>>
                            THEN requestBody.text ELSE <<>>
                      /\ ranges' = parsed
                      /\ filterLocals' = written.locals
                      /\ filteredContent' = written.content
                      /\ render' = r
                      /\ response' = RenderStatus(r)
                      /\ responseBody' = RenderBody(r)
    /\ UNCHANGED <<presentations, generated, service, serverless, inFlightVars,
                   clientVars>>

DownloadPPTX ==
    \E id \in Ids, requestBody \in RequestRanges :
        Download("pptx", id, requestBody)

DownloadPDF ==
    \E id \in Ids, requestBody \in RequestRanges :
        Download("pdf", id, requestBody)

\* GET /api/presentations/:id/preview
Preview(id) ==
    /\ request' = [NoRequest EXCEPT !.route = "preview", !.id = id]
    /\ IF ~HasPresentation(presentations, id)
       THEN /\ response' = 404
            /\ responseBody' = NotFoundBody
            /\ render' = RenderIdle
       ELSE \E scenario \in RenderScenarios :
              LET r == RunRender(service, serverless, "html", scenario)
              IN  /\ render' = r
                  /\ response' = RenderStatus(r)
                  /\ responseBody' = RenderBody(r)
    /\ rangeString' = <<>>
    /\ ranges' = NoRanges
    /\ filterLocals' = NoLocals
    /\ filteredContent' = <<>>
    /\ UNCHANGED <<presentations, generated, service, serverless, inFlightVars,
                   clientVars>>

\* this.presentations.get(id): the stored record, or undefined
getPresentation(store, id) ==
    IF HasPresentation(store, id) THEN {store[id]} ELSE {}

\* GET /api/presentations/:id
GetPresentation(id) ==
    /\ request' = [NoRequest EXCEPT !.route = "get", !.id = id]
    /\ LET presentation == getPresentation(presentations, id)
       IN  IF presentation = {}
           THEN /\ response' = 404
                /\ responseBody' = NotFoundBody
           ELSE /\ response' = 200
                /\ responseBody' = RecordsBody("record", presentation)
    /\ rangeString' = <<>>
    /\ ranges' = NoRanges
    /\ filterLocals' = NoLocals
    /\ filteredContent' = <<>>
    /\ render' = RenderIdle
    /\ UNCHANGED <<presentations, generated, service, serverless, inFlightVars,
                   clientVars>>

\* Array.from(this.presentations.values()) with the default limit of 10,
\* which no store of the bounds reaches; the order of the array is not
\* modelled.
getUserPresentations(store) == { store[k] : k \in DOMAIN store }

\* GET /api/presentations
ListPresentations ==
    /\ request' = [NoRequest EXCEPT !.route = "list"]
    /\ response' = 200
    /\ responseBody' =
          RecordsBody("list", getUserPresentations(presentations))
    /\ rangeString' = <<>>
    /\ ranges' = NoRanges
    /\ filterLocals' = NoLocals
    /\ filteredContent' = <<>>
    /\ render' = RenderIdle
    /\ UNCHANGED <<presentations, generated, service, serverless, inFlightVars,
                   clientVars>>

\* DELETE /api/presentations/:id
Delete(id) ==
    /\ request' = [NoRequest EXCEPT !.route = "delete", !.id = id]
    /\ LET deleted == HasPresentation(presentations, id)
       IN  /\ response' = IF deleted THEN 200 ELSE 404
           /\ responseBody' =
                 IF deleted THEN [NoBody EXCEPT !.kind = "success"]
                 ELSE NotFoundBody
    /\ presentations' = deletePresentation(presentations, id)
    /\ generated' = [k \in DOMAIN generated \ {id} |-> generated[k]]
    /\ rangeString' = <<>>
    /\ ranges' = NoRanges
    /\ filterLocals' = NoLocals
    /\ filteredContent' = <<>>
    /\ render' = RenderIdle
    /\ UNCHANGED <<service, serverless, inFlightVars,
                   clientVars>>

GenerateAny ==
    \E id \in Ids, form \in GenerateForms, file \in TemplateFiles,
       reply \in ProviderReplies :
        Generate(id, form, file, reply)

PreviewAny == \E id \in Ids : Preview(id)

GetAny == \E id \in Ids : GetPresentation(id)

DeleteAny == \E id \in Ids : Delete(id)

\* <cwd>/temp with no file in it.
EmptyDir == [path \in {} |-> 0]

\* No render invocation made: the clock at its first value, no file.
NoInvocation ==
    /\ now = 0
    /\ calls = <<>>
    /\ tempDir = EmptyDir

\* useState(null), useState({ content: "", guidance: "" }), useState(null):
\* Home after its first render.  presentation id 0 stands for null, the
\* empty apiKey for llmConfig = null.
HomeMounted ==
    [currentPresentationId |-> 0,
     contentData |-> [content |-> <<>>, guidance |-> <<>>],
     apiKey |-> <<>>]

\* useState(initialContent), useState(initialGuidance): TextInputSection
\* after its first render, its effects not yet run.  ranContent and
\* ranGuidance are the dependencies of the last run of the content effect,
\* handlerChanged says that onContentChange is another function than at
\* that run.
TextInputMounted ==
    [content |-> <<>>, guidance |-> <<>>,
     ranContent |-> <<>>, ranGuidance |-> <<>>, handlerChanged |-> TRUE]

\* useState(1), useState(false): PreviewSection after its first render;
\* fetched is the set of presentations the query cache holds.
PreviewMounted ==
    [currentSlide |-> 1, isGenerating |-> FALSE, fetched |-> {}]

\* The page as the browser first shows it.
PageLoaded ==
    /\ home = HomeMounted
    /\ textInput = TextInputMounted
    /\ preview = PreviewMounted

\* No request handled yet, no render invocation made.
NothingHandled ==
    /\ request = NoRequest
    /\ rangeString = <<>>
    /\ ranges = NoRanges
    /\ filterLocals = NoLocals
    /\ filteredContent = <<>>
    /\ response = 0
    /\ responseBody = NoBody
    /\ render = RenderIdle
    /\ NoInvocation
    /\ PageLoaded

\* The server as routes.ts builds it: ./services/marp is marp.ts, which
\* never reads the environment.
Init ==
    /\ presentations = EmptyStore
    /\ generated = EmptyStore
    /\ service = "marp"
    /\ serverless = FALSE
    /\ NothingHandled

Next ==
    \/ GenerateAny
    \/ PreviewAny
    \/ DownloadPPTX
    \/ DownloadPDF
    \/ ListPresentations
    \/ GetAny
    \/ DeleteAny

Spec == Init /\ [][Next]_vars

-----------------------------------------------------------------------------
(* The filter applied to every assembled Document *)

\* The store after one generation, for every slide sequence of the bounds.
InitFilter ==
    /\ \E slides \in SlideSeqs :
          /\ presentations =
                createPresentation(EmptyStore, 1,
                    InsertPresentation(CompleteForm, slides))
          /\ generated = [k \in {1} |-> slides]
    /\ service = "marp"
    /\ serverless = FALSE
    /\ NothingHandled

\* filterSlidesByRange(marpContent, ranges) on the stored Document
FilterSlides ==
    /\ request.route = "none"
    /\ LET slides == SplitBlocks(presentations[1].marpContent)
       IN  \E rs \in RangeLists :
             LET out == FilterBlocks(slides, rs)
             IN  /\ request' = [NoRequest EXCEPT !.route = "filter", !.id = 1]
                 /\ ranges' = [defined |-> TRUE, list |-> rs]
                 /\ filterLocals' = [header |-> out.header,
                                     slideContents |-> out.slideContents,
                                     indices |-> out.indices]
                 /\ filteredContent' = out.result
                 /\ UNCHANGED <<presentations, generated, rangeString,
                                response, responseBody, service, serverless,
                                render,
                                inFlightVars, clientVars>>

SpecFilter == InitFilter /\ [][FilterSlides]_vars

-----------------------------------------------------------------------------
(* The filter applied to arbitrary text *)

RawAlphabet == {DASH, NL, "a"}

\* Texts longer than the enumerated ones: delimiters and whitespace only,
\* and a delimiter between two letters.
ExampleDocs ==
    { <<DASH, DASH, DASH, NL, DASH, DASH, DASH>>,
      <<SP, NL, DASH, DASH, DASH, SP, NL, DASH, DASH, DASH, NL>>,
      <<DASH, DASH, DASH, DASH, DASH, DASH>>,
      <<"a", DASH, DASH, DASH, "b">>,
      <<"a", NL, DASH, DASH, DASH, NL, "b", NL, DASH, DASH, DASH, NL, "c">> }

\* The marpContent arguments: every text over RawAlphabet up to MaxDocLen
\* characters, the empty string included, and the examples.
RawDocs == SeqsUpTo(RawAlphabet, MaxDocLen) \cup ExampleDocs

\* A store whose record holds arbitrary text as its Document.
InitRaw ==
    /\ \E doc \in RawDocs :
          presentations =
              createPresentation(EmptyStore, 1,
                  [InsertPresentation(CompleteForm, <<>>)
                      EXCEPT !.title = <<>>, !.marpContent = doc])
    /\ generated = EmptyStore
    /\ service = "marp"
    /\ serverless = FALSE
    /\ NothingHandled

SpecFilterRaw == InitRaw /\ [][FilterSlides]_vars

-----------------------------------------------------------------------------
(* One render invocation, event by event, under each source of the class   *)
(* and each environment                                                    *)

\* The route that awaits the operation.
RenderRoute(op) == IF op = "html" THEN "preview" ELSE op

InitRender ==
    /\ presentations =
          createPresentation(EmptyStore, 1,
              InsertPresentation(CompleteForm,
                                 SubSeq(CollaboratorAnswer, 1, 1)))
    /\ generated = [k \in {1} |-> SubSeq(CollaboratorAnswer, 1, 1)]
    /\ service \in ServiceVersions
    /\ serverless \in BOOLEAN
    /\ NothingHandled

\* The response once the invocation r has settled; none while it runs.
Respond(r) ==
    /\ response' = IF r.phase = "settled" THEN RenderStatus(r) ELSE 0
    /\ responseBody' = IF r.phase = "settled" THEN RenderBody(r) ELSE NoBody

\* The handler calls generateHTML / generatePPTX / generatePDF with the
\* stored Document and no ranges.
CallRender ==
    /\ render.phase = "idle"
    /\ \E op \in RenderOps, setupOk \in BOOLEAN :
          LET r == RenderStart(service, serverless, op, setupOk)
          IN  /\ request' = [NoRequest EXCEPT !.route = RenderRoute(op),
                                              !.id = 1]
              /\ render' = r
              /\ filteredContent' =
                    IF op # "html" /\ ~(ChecksServerless(service) /\ serverless)
                    THEN FilteredContent(presentations[1].marpContent,
                                         NoRanges).content
                    ELSE <<>>
              /\ Respond(r)
    /\ UNCHANGED <<presentations, generated, rangeString, ranges,
                   filterLocals, service, serverless,
                   inFlightVars, clientVars>>

\* The tool writes to stderr.
StderrData ==
    /\ render.phase = "running"
    /\ Len(render.toolStderr) < MaxChunks
    /\ \E chunk \in StderrChunks :
          render' = RenderData(render, service, chunk)
    /\ UNCHANGED <<presentations, generated, request, rangeString, ranges,
                   filterLocals, filteredContent, response, responseBody,
                   service, serverless,
                   inFlightVars, clientVars>>

\* The process closes: 'close' with its exit status.
ProcessClose ==
    /\ render.phase = "running"
    /\ \E code \in ExitCodes, readOk \in BOOLEAN :
          LET r == RenderClose(render, service, code, readOk)
          IN  render' = r /\ Respond(r)
    /\ UNCHANGED <<presentations, generated, request, rangeString, ranges,
                   filterLocals, filteredContent, service, serverless,
                   inFlightVars, clientVars>>

\* The process could not be spawned: 'error'.
ProcessError ==
    /\ render.phase = "running"
    /\ render' = RenderError(render)
    /\ Respond(RenderError(render))
    /\ UNCHANGED <<presentations, generated, request, rangeString, ranges,
                   filterLocals, filteredContent, service, serverless,
                   inFlightVars, clientVars>>

NextRender == CallRender \/ StderrData \/ ProcessClose \/ ProcessError

SpecRender == InitRender /\ [][NextRender]_vars

-----------------------------------------------------------------------------
(* The parser applied to every range expression *)

InitParse ==
    /\ rangeString \in RangeStrings
    /\ presentations = EmptyStore
    /\ generated = EmptyStore
    /\ request = NoRequest
    /\ ranges = NoRanges
    /\ filterLocals = NoLocals
    /\ filteredContent = <<>>
    /\ response = 0
    /\ responseBody = NoBody
    /\ service = "marp"
    /\ serverless = FALSE
    /\ render = RenderIdle
    /\ NoInvocation
    /\ PageLoaded

\* marpService.parseSlideRanges(rangeString)
ParseRanges ==
    /\ request.route = "none"
    /\ request' = [NoRequest EXCEPT !.route = "parse"]
    /\ ranges' = [defined |-> TRUE, list |-> parseSlideRanges(rangeString)]
    /\ UNCHANGED <<presentations, generated, rangeString, filterLocals,
                   filteredContent, response, responseBody, service,
                   serverless, render,
                   inFlightVars, clientVars>>

SpecParse == InitParse /\ [][ParseRanges]_vars

-----------------------------------------------------------------------------
(* Render invocations side by side: their temp files and their promises *)

\* path.join(tempDir, `presentation-${stamp}.${extension}`)
TempPath(stamp, extension) == [stamp |-> stamp, extension |-> extension]

\* What the caller of invocation i passes as marpContent, and what the
\* Marp CLI renders from it: each invocation has a Document of its own.
Document(i) == i

\* resolve(value) that settles the promise again
resolveAgain(call, value) ==
    [call EXCEPT !.outcome = "resolved", !.value = value,
                 !.settleCalls = @ + 1]

\* resolve(value) of the invocation's promise: a promise settles once and
\* ignores the later calls of its resolve and reject.
resolve(call, value) ==
    IF call.outcome = "pending"
    THEN [call EXCEPT !.outcome = "resolved", !.value = value,
                      !.settleCalls = @ + 1]
    ELSE [call EXCEPT !.settleCalls = @ + 1]

\* reject(error) of the invocation's promise
reject(call, cause) ==
    IF call.outcome = "pending"
    THEN [call EXCEPT !.outcome = "rejected", !.cause = cause,
                      !.settleCalls = @ + 1]
    ELSE [call EXCEPT !.settleCalls = @ + 1]

\* The two Date.now() readings of the executor: marp.ts reads the clock
\* once for each file name, the sources in part_008 read it once.
ReadsClockTwice(version) == version = "marp"

\* The executor of new Promise(...), up to the call of fs.mkdir.
NewCall(op, inputStamp, outputStamp) ==
    [op |-> op, phase |-> "setup",
     inputFile |-> TempPath(inputStamp, "md"),
     outputFile |-> TempPath(outputStamp, op),
     outcome |-> "pending", value |-> 0, cause |-> "none",
     settleCalls |-> 0, errorDelivered |-> FALSE, unlinkRequested |-> {}]

\* fs.writeFile(path, content)
writeFile(dir, path, content) ==
    [p \in DOMAIN dir \cup {path} |-> IF p = path THEN content ELSE dir[p]]

\* fs.unlink of each path of the set
unlink(dir, paths) == [p \in DOMAIN dir \ paths |-> dir[p]]

\* No invocation yet, outside a serverless environment, under marp.ts and
\* under the second source of the class; the third names and handles its
\* files as the second does.
InitInFlight ==
    /\ presentations = EmptyStore
    /\ generated = EmptyStore
    /\ service \in {"marp", "collecting"}
    /\ serverless = FALSE
    /\ NothingHandled

\* Milliseconds that pass between two readings of the clock that follow
\* each other: none, or one.
Elapsed == {0, 1}

\* A handler calls generateHTML / generatePPTX / generatePDF: the executor
\* names the two temp files after the clock and starts fs.mkdir.  The
\* clock may have advanced since the last reading, and in marp.ts also
\* between the two readings of one executor.
Invoke ==
    /\ Len(calls) < MaxCalls
    /\ \E op \in RenderOps, since \in Elapsed, between \in Elapsed :
          /\ between = 1 => ReadsClockTwice(service)
          /\ calls' = Append(calls, NewCall(op, now + since,
                                            now + since + between))
          /\ now' = now + since + between
    /\ UNCHANGED <<routeVars, tempDir, clientVars>>

\* mkdir and writeFile of the input file are done and the tool is spawned,
\* or one of the two failed: .catch(reject).
SetupDone(i) ==
    /\ calls[i].phase = "setup"
    /\ \E ok \in BOOLEAN :
          IF ok
          THEN /\ tempDir' =
                     writeFile(tempDir, calls[i].inputFile, Document(i))
               /\ calls' = [calls EXCEPT ![i].phase = "running"]
          ELSE /\ calls' = [calls EXCEPT
                              ![i] = [reject(@, "setup")
                                         EXCEPT !.phase = "done"]]
               /\ UNCHANGED tempDir
    /\ UNCHANGED <<routeVars, now, clientVars>>

\* 'close' with the exit status.  The tool exits with 0 only after it has
\* read the input file and written the rendering of what it read to the
\* output file; the handler then starts fs.readFile.  Any other status
\* rejects.
ProcessClosed(i) ==
    /\ calls[i].phase = "running"
    /\ \E code \in ExitCodes :
          IF code = 0
          THEN /\ calls[i].inputFile \in DOMAIN tempDir
               /\ tempDir' = writeFile(tempDir, calls[i].outputFile,
                                       tempDir[calls[i].inputFile])
               /\ calls' = [calls EXCEPT ![i].phase = "reading"]
          ELSE /\ calls' = [calls EXCEPT
                              ![i] = [reject(@, "exit")
                                         EXCEPT !.phase = "done"]]
               /\ UNCHANGED tempDir
    /\ UNCHANGED <<routeVars, now, clientVars>>

\* fs.readFile(outputFile) is done: the two unlinks and resolve(content),
\* or reject(error) when the file could not be read.
OutputRead(i) ==
    /\ calls[i].phase = "reading"
    /\ \E ok \in BOOLEAN :
          IF ok /\ calls[i].outputFile \in DOMAIN tempDir
          THEN /\ tempDir' = unlink(tempDir, {calls[i].inputFile,
                                              calls[i].outputFile})
               /\ calls' = [calls EXCEPT
                              ![i] = [resolve(@, tempDir[calls[i].outputFile])
                                         EXCEPT
                                           !.phase = "done",
                                           !.unlinkRequested =
                                               {calls[i].inputFile,
                                                calls[i].outputFile}]]
          ELSE /\ calls' = [calls EXCEPT
                              ![i] = [reject(@, "read")
                                         EXCEPT !.phase = "done"]]
               /\ UNCHANGED tempDir
    /\ UNCHANGED <<routeVars, now, clientVars>>

\* 'error' of the child process: reject(error).  A 'close' may still
\* follow.
ProcessFailed(i) ==
    /\ calls[i].phase = "running"
    /\ ~calls[i].errorDelivered
    /\ calls' = [calls EXCEPT
                   ![i] = [reject(@, "spawn") EXCEPT !.errorDelivered = TRUE]]
    /\ UNCHANGED <<routeVars, now, tempDir, clientVars>>

SetupDoneAny == \E i \in 1..Len(calls) : SetupDone(i)

ProcessClosedAny == \E i \in 1..Len(calls) : ProcessClosed(i)

OutputReadAny == \E i \in 1..Len(calls) : OutputRead(i)

ProcessFailedAny == \E i \in 1..Len(calls) : ProcessFailed(i)

NextInFlight ==
    \/ Invoke
    \/ SetupDoneAny
    \/ ProcessClosedAny
    \/ OutputReadAny
    \/ ProcessFailedAny

SpecInFlight == InitInFlight /\ [][NextInFlight]_vars

\* The first invocation of the server.
InvokeFirst == calls = <<>> /\ Invoke

\* One invocation alone, event by event.
NextCall ==
    \/ InvokeFirst
    \/ SetupDoneAny
    \/ ProcessClosedAny
    \/ OutputReadAny
    \/ ProcessFailedAny

\* fs.mkdir, fs.writeFile and fs.readFile complete, so the callbacks that
\* wait for them run.  Whether and when the tool exits is not assumed.
SpecCallFair ==
    /\ InitInFlight
    /\ [][NextCall]_vars
    /\ WF_vars(calls # <<>> /\ SetupDone(1))
    /\ WF_vars(calls # <<>> /\ OutputRead(1))

-----------------------------------------------------------------------------
(* The Home page: Home, TextInputSection, PreviewSection, RecentGenerations *)

\* What the user types into the content and the guidance fields.
ContentTexts == {<<>>, <<"a">>}

GuidanceTexts == {<<>>, <<"g">>}

\* Home renders again: handleContentChange is a new function, and
\* TextInputSection receives it as onContentChange.
AfterHomeRender(t) == [t EXCEPT !.handlerChanged = TRUE]

\* useEffect(..., [content, guidance, onContentChange]): one of the
\* dependencies differs from its value at the last run.
ContentEffectDue(t) ==
    \/ t.content # t.ranContent
    \/ t.guidance # t.ranGuidance
    \/ t.handlerChanged

\* The effect has run with the present dependencies.
AfterContentEffect(t) ==
    [t EXCEPT !.ranContent = t.content, !.ranGuidance = t.guidance,
              !.handlerChanged = FALSE]

\* handleContentChange(content, guidance)
handleContentChange(h, content, guidance) ==
    [h EXCEPT !.contentData = [content |-> content, guidance |-> guidance],
              !.currentPresentationId = 0]

\* (presentation as any)?.slideCount || 0, presentation the data of the
\* query keyed by presentationId: undefined without an id and until the
\* query has fetched it.
totalSlides(h, p, store) ==
    IF /\ h.currentPresentationId # 0
       /\ h.currentPresentationId \in p.fetched
       /\ h.currentPresentationId \in DOMAIN store
    THEN store[h.currentPresentationId].slideCount
    ELSE 0

\* contentData.content.trim() && llmConfig?.apiKey.trim()
canGenerate(h) == Trim(h.contentData.content) # <<>> /\ Trim(h.apiKey) # <<>>

\* The decks of the presentations generated before the page was loaded:
\* one of each length from 1 to MaxSlides.
EarlierDecks == [k \in 1..MaxSlides |-> SubSeq(CollaboratorAnswer, 1, k)]

\* The page as first shown, with the earlier presentations in the store
\* and therefore in the recent list.
InitClient ==
    /\ presentations =
          [k \in 1..MaxSlides |->
              createPresentation(EmptyStore, k,
                  InsertPresentation(CompleteForm, EarlierDecks[k]))[k]]
    /\ generated = EarlierDecks
    /\ service = "marp"
    /\ serverless = FALSE
    /\ NothingHandled

\* The state of the server and of its render invocations that the page
\* does not touch.
besidesStore == <<generated, request, rangeString, ranges, filterLocals,
                  filteredContent, response, responseBody, service,
                  serverless, render, inFlightVars>>

\* The user edits the content field: setContent(e.target.value).
TypeContent ==
    /\ \E text \in ContentTexts :
          /\ text # textInput.content
          /\ textInput' = [textInput EXCEPT !.content = text]
    /\ UNCHANGED <<presentations, besidesStore, home, preview>>

\* The user edits the guidance field: setGuidance(e.target.value).
TypeGuidance ==
    /\ \E text \in GuidanceTexts :
          /\ text # textInput.guidance
          /\ textInput' = [textInput EXCEPT !.guidance = text]
    /\ UNCHANGED <<presentations, besidesStore, home, preview>>

\* The user enters the key: LLMConfigSection hands the configuration to
\* handleConfigChange, and Home renders again.
TypeApiKey ==
    /\ \E key \in ApiKeys :
          /\ key # home.apiKey
          /\ home' = [home EXCEPT !.apiKey = key]
    /\ textInput' = AfterHomeRender(textInput)
    /\ UNCHANGED <<presentations, besidesStore, preview>>

\* The content effect of TextInputSection runs: onContentChange(content,
\* guidance).  setContentData gets a new object, so Home renders again.
ContentEffect ==
    /\ ContentEffectDue(textInput)
    /\ home' = handleContentChange(home, textInput.content,
                                   textInput.guidance)
    /\ textInput' = AfterHomeRender(AfterContentEffect(textInput))
    /\ UNCHANGED <<presentations, besidesStore, preview>>

\* The user clicks an entry of the recent list:
\* onPresentationSelect(presentation.id) is setCurrentPresentationId.  Home
\* renders again unless the id is the one it has.
SelectPresentation ==
    /\ \E id \in DOMAIN presentations :
          /\ home' = [home EXCEPT !.currentPresentationId = id]
          /\ textInput' = IF id # home.currentPresentationId
                          THEN AfterHomeRender(textInput) ELSE textInput
    /\ UNCHANGED <<presentations, besidesStore, preview>>

\* The query keyed by presentationId has fetched the record.
QueryFetched ==
    /\ home.currentPresentationId \in DOMAIN presentations
    /\ home.currentPresentationId \notin preview.fetched
    /\ preview' = [preview EXCEPT
                     !.fetched = @ \cup {home.currentPresentationId}]
    /\ UNCHANGED <<presentations, besidesStore, home, textInput>>

\* handleGenerate with content and key filled in: setIsGenerating(true)
\* and the request is sent.
StartGenerate ==
    /\ canGenerate(home)
    /\ ~preview.isGenerating
    /\ preview' = [preview EXCEPT !.isGenerating = TRUE]
    /\ UNCHANGED <<presentations, besidesStore, home, textInput>>

\* The server has stored the new presentation and answered:
\* generateMutation.onSuccess.
GenerateSucceeded ==
    /\ preview.isGenerating
    /\ Cardinality(DOMAIN presentations) < MaxSlides + MaxPresentations
    /\ \E slides \in GeneratedDecks \ {<<>>} :
          LET id == Cardinality(DOMAIN presentations) + 1
              form == [CompleteForm EXCEPT
                          !.content = home.contentData.content,
                          !.guidance = home.contentData.guidance,
                          !.apiKey = home.apiKey]
          IN  /\ presentations' =
                    createPresentation(presentations, id,
                                       InsertPresentation(form, slides))
              /\ home' = [home EXCEPT !.currentPresentationId = id]
              /\ preview' = [preview EXCEPT !.isGenerating = FALSE,
                                            !.currentSlide = 1]
              /\ textInput' = AfterHomeRender(textInput)
    /\ UNCHANGED besidesStore

\* The request failed: generateMutation.onError.
GenerateFailed ==
    /\ preview.isGenerating
    /\ preview' = [preview EXCEPT !.isGenerating = FALSE]
    /\ UNCHANGED <<presentations, besidesStore, home, textInput>>

\* nextSlide()
nextSlide ==
    /\ preview' =
          IF preview.currentSlide < totalSlides(home, preview, presentations)
          THEN [preview EXCEPT !.currentSlide = @ + 1]
          ELSE preview
    /\ UNCHANGED <<presentations, besidesStore, home, textInput>>

\* previousSlide()
previousSlide ==
    /\ preview' =
          IF preview.currentSlide > 1
          THEN [preview EXCEPT !.currentSlide = @ - 1]
          ELSE preview
    /\ UNCHANGED <<presentations, besidesStore, home, textInput>>

\* goToSlide(slideNumber)
goToSlide ==
    /\ \E slideNumber \in 0..(MaxSlides + 1) :
          preview' =
              IF /\ slideNumber >= 1
                 /\ slideNumber <=
                       totalSlides(home, preview, presentations)
              THEN [preview EXCEPT !.currentSlide = slideNumber]
              ELSE preview
    /\ UNCHANGED <<presentations, besidesStore, home, textInput>>

NextClient ==
    \/ TypeContent
    \/ TypeGuidance
    \/ TypeApiKey
    \/ ContentEffect
    \/ SelectPresentation
    \/ QueryFetched
    \/ StartGenerate
    \/ GenerateSucceeded
    \/ GenerateFailed
    \/ nextSlide
    \/ previousSlide
    \/ goToSlide

SpecClient == InitClient /\ [][NextClient]_vars

-----------------------------------------------------------------------------
(* Properties of the slide filter (SpecFilter) *)

Filtered == request.route = "filter"

\* The deck the stored Document was assembled from.
Deck == generated[1]

\* The slide blocks of the filter's output: its blocks after block 0.
EmittedSlideBlocks == SlideContents(SplitBlocks(filteredContent))

\* The 1-based positions the range list asks for that exist in the Document.
RequestedPositions ==
    { i \in 1..Len(filterLocals.slideContents) :
        \E k \in 1..Len(ranges.list) :
            ranges.list[k].start <= i /\ i <= ranges.list[k].end }

\* C1: whatever the order, overlap or repetition of the ranges, the filter
\* emits the selected slide blocks in strictly ascending original position,
\* each selected position once.
C1_AscendingOnce ==
    Filtered =>
        LET indices == filterLocals.indices
        IN  /\ \A k \in 1..(Len(indices) - 1) : indices[k] < indices[k + 1]
            /\ EmittedSlideBlocks =
                  [k \in 1..Len(indices) |->
                      filterLocals.slideContents[indices[k] + 1]]

\* C1 witness: the ranges of "2,1-2" on a Document with two slide blocks
\* give positions 1, 2.
C1_Witness ==
    /\ Filtered
    /\ ranges.list = <<[start |-> 2, end |-> 2], [start |-> 1, end |-> 2]>>
    /\ Len(filterLocals.slideContents) = 2
    /\ filterLocals.indices = <<0, 1>>
    /\ Len(EmittedSlideBlocks) = 2

\* C2: the positions the filter emits are exactly the positions 1..N that
\* lie in some range; positions below 1 or above N are ignored.
C2_ExactlyRequested ==
    Filtered =>
        /\ { filterLocals.indices[k] + 1 : k \in 1..Len(filterLocals.indices) }
              = RequestedPositions
        /\ Len(EmittedSlideBlocks) = Cardinality(RequestedPositions)

\* C2 witness: a range from below 1 to above N on a Document with two slide
\* blocks selects both.
C2_Witness ==
    /\ Filtered
    /\ ranges.list = <<[start |-> 0, end |-> 3]>>
    /\ Len(filterLocals.slideContents) = 2
    /\ filterLocals.indices = <<0, 1>>

\* The header block of the assembled Document: the metadata block and the
\* generated style rules, without the blank lines around them.
HeaderBlock == Trim(HeaderText(DefaultStyles, presentations[1].title))

\* The block assemble emits for one slide, without the blank lines around it.
SlideBlock(slide) == Trim(SlideText(slide))

\* The 1-based positions of the deck's slides that lie in some range.
SelectedSlides ==
    { i \in 1..Len(Deck) :
        \E k \in 1..Len(ranges.list) :
            ranges.list[k].start <= i /\ i <= ranges.list[k].end }

\* C3: the header block of the filter's output, metadata and style rules,
\* is byte-identical to the header block of the input Document.
C3_HeaderPreserved ==
    Filtered => IsPrefix(HeaderBlock, filteredContent)

\* C4: for a deck of two or more slides and ranges selecting some of them,
\* the output holds the style rules whether or not slide 1 is selected,
\* every selected slide, and no unselected slide.
C4_HeaderThenSelected ==
    (Filtered /\ Len(Deck) >= 2 /\ SelectedSlides # {}) =>
        /\ Includes(filteredContent, Trim(StyleRules(DefaultStyles)))
        /\ \A i \in 1..Len(Deck) :
              (i \in SelectedSlides)
                 <=> Includes(filteredContent, SlideBlock(Deck[i]))

\* C5: filtering an assembled Document with the single range [1, len(S)]
\* gives slide blocks equal to the slides of S, one block per slide, in
\* order, with nothing added to or removed from a block.
C5_FullRangeRoundTrip ==
    (Filtered /\ Len(Deck) >= 1
       /\ ranges.list = <<[start |-> 1, end |-> Len(Deck)]>>) =>
        EmittedSlideBlocks = [k \in 1..Len(Deck) |-> SlideBlock(Deck[k])]

\* C6: splitting the Document assembled from a non-empty deck the way the
\* filter does gives exactly len(slides) slide blocks, whatever the
\* title, content and notes strings are.
C6_BlockCount ==
    (Filtered /\ Len(Deck) >= 1) =>
        Len(filterLocals.slideContents) = Len(Deck)

\* C10: in a Document assembled from N >= 1 slides the split puts the
\* complete header block at index 0 and the block of the i-th slide at
\* index i.
C10_HeaderAtZero ==
    (Filtered /\ Len(Deck) >= 1) =>
        /\ filterLocals.header = HeaderBlock
        /\ Len(filterLocals.slideContents) = Len(Deck)
        /\ \A i \in 1..Len(Deck) :
              filterLocals.slideContents[i] = SlideBlock(Deck[i])

\* The stored Document the filter was applied to.
Doc == presentations[1].marpContent

\* A "---" at index i that stands alone on its line.
DelimiterLineAt(s, i) ==
    /\ MatchAt(s, Delimiter, i)
    /\ (i = 1 \/ s[i - 1] = NL)
    /\ (i + Len(Delimiter) > Len(s) \/ s[i + Len(Delimiter)] = NL)

\* The non-empty trimmed blocks of s when it is cut at delimiter lines only.
SplitAtDelimiterLines(s) ==
    SelectSeq(
        MapTrim(SplitFrom(s, Delimiter,
                          { i \in 1..Len(s) : DelimiterLineAt(s, i) }, 1)),
        LAMBDA b : Len(b) > 0)

\* C11: the filter cuts the Document only at "---" tokens that stand alone
\* on their own line, never at a "---" inside a line of a title, content
\* or notes.
C11_SeparatorAloneOnLine ==
    Filtered =>
        <<filterLocals.header>> \o filterLocals.slideContents
            = SplitAtDelimiterLines(Doc)

\* The first index at or after from where block occurs in doc.
FirstAt(doc, block, from) ==
    CHOOSE i \in from..Len(doc) :
        /\ MatchAt(doc, block, i)
        /\ \A j \in from..(i - 1) : ~MatchAt(doc, block, j)

\* The text of doc before each of the blocks, which occur in doc in order.
RECURSIVE Gaps(_, _, _)
Gaps(doc, blocks, from) ==
    IF blocks = <<>> THEN <<>>
    ELSE LET i == FirstAt(doc, Head(blocks), from)
         IN  <<SubSeq(doc, from, i - 1)>>
             \o Gaps(doc, Tail(blocks), i + Len(Head(blocks)))

\* The text between each two consecutive blocks of doc.
Separators(doc, blocks) == Tail(Gaps(doc, blocks, 1))

\* C12: when every block is selected, the text between the header and the
\* first slide block and between consecutive slide blocks of the output is
\* byte-identical to the text between the same blocks of the assembled
\* Document.
C12_SeparatorsIdentical ==
    (Filtered /\ Len(filterLocals.slideContents) >= 1
       /\ Len(filterLocals.indices) = Len(filterLocals.slideContents)) =>
        LET blocks == <<filterLocals.header>> \o filterLocals.slideContents
        IN  Separators(filteredContent, blocks) = Separators(Doc, blocks)

\* C13: when every requested position lies outside 1..N the output is the
\* header block alone, metadata and style rules, with no slide block and
\* no delimiter after it.
C13_OutOfRangeHeaderOnly ==
    (Filtered /\ RequestedPositions = {}) => filteredContent = HeaderBlock

\* C14: for the Document assembled from no slide the output is the header
\* block alone, and it is the same for every non-empty range list.
C14_HeaderOnlyDocument ==
    (Filtered /\ Deck = <<>>) =>
        /\ filteredContent = HeaderBlock
        /\ \A rs \in RangeLists :
              filterSlidesByRange(Doc, rs) = filteredContent

-----------------------------------------------------------------------------
(* Properties of the slide filter on arbitrary text (SpecFilterRaw) *)

\* C15: when the text splits into no non-empty block, the filter returns
\* the empty Document, with an empty header and no slide block, for every
\* range list.
C15_NoBlockEmptyDocument ==
    (Filtered /\ SplitBlocks(Doc) = <<>>) =>
        /\ filterLocals.header = <<>>
        /\ filterLocals.slideContents = <<>>
        /\ filterLocals.indices = <<>>
        /\ filteredContent = <<>>

\* C15 witness: a text of two delimiters and a line break, filtered with
\* the ranges [1, 1], [0, 3], gave the empty string.
C15_Witness ==
    /\ Filtered
    /\ Doc = <<DASH, DASH, DASH, NL, DASH, DASH, DASH>>
    /\ ranges.list = <<[start |-> 1, end |-> 1], [start |-> 0, end |-> 3]>>
    /\ filteredContent = <<>>

-----------------------------------------------------------------------------
(* Properties of the range parser (SpecParse) *)

Parsed == request.route = "parse"

\* A non-empty run of decimal digits.
IsInteger(s) == s # <<>> /\ \A k \in 1..Len(s) : s[k] \in Digits

\* The grammar of the specification for one trimmed token: an integer, or
\* two integers around one dash with start <= end.
GrammarPart(part) ==
    LET pieces == Split(part, <<DASH>>)
        a == Trim(pieces[1])
        b == Trim(pieces[2])
    IN  IF Len(pieces) = 1
        THEN IF IsInteger(part)
             THEN <<[start |-> DecimalValue(part), end |-> DecimalValue(part)]>>
             ELSE <<>>
        ELSE IF /\ Len(pieces) = 2
                /\ IsInteger(a) /\ IsInteger(b)
                /\ DecimalValue(a) <= DecimalValue(b)
             THEN <<[start |-> DecimalValue(a), end |-> DecimalValue(b)]>>
             ELSE <<>>

RECURSIVE GrammarParts(_)
GrammarParts(parts) ==
    IF parts = <<>> THEN <<>>
    ELSE GrammarPart(Head(parts)) \o GrammarParts(Tail(parts))

\* C7: a token contributes a range only if, trimmed, it is one integer or
\* two integers around one dash with start <= end; a number with trailing
\* characters or extra dash segments contributes nothing.
C7_OnlyGrammarTokens ==
    Parsed =>
        ranges.list = GrammarParts(MapTrim(Split(rangeString, <<",">>)))

\* C9: every range the parser returns has start <= end and both ends >= 1.
C9_NormalizedRanges ==
    Parsed =>
        \A k \in 1..Len(ranges.list) :
            /\ ranges.list[k].start <= ranges.list[k].end
            /\ ranges.list[k].start >= 1
            /\ ranges.list[k].end >= 1

-----------------------------------------------------------------------------
(* Properties of the download routes (Spec) *)

Downloaded == request.route \in {"pptx", "pdf"} /\ response = 200

\* The request carries no range expression, or a blank one.
BlankExpression ==
    ~request.slideRanges.present \/ Trim(request.slideRanges.text) = <<>>

\* C8: a download whose range expression is absent, empty or whitespace
\* only parses to no range and renders the stored Document unchanged.
C8_BlankMeansNoFilter ==
    (Downloaded /\ BlankExpression) =>
        /\ ranges.list = <<>>
        /\ filterLocals = NoLocals
        /\ filteredContent = presentations[request.id].marpContent

\* C8 witness: a whitespace-only expression reached the parser, and the
\* stored two-slide Document went to the renderer.
C8_Witness ==
    /\ Downloaded
    /\ request.slideRanges = [present |-> TRUE, text |-> <<SP>>]
    /\ ranges = [defined |-> TRUE, list |-> <<>>]
    /\ presentations[request.id].slideCount = 2
    /\ filteredContent = presentations[request.id].marpContent

\* The level-1 heading line of a slide.
HeadingLine(title) == <<"#", SP>> \o title \o <<NL>>

\* The hidden annotation line wrapping the notes, after a blank line.
AnnotationLine(notes) ==
    <<NL, "<", "!", DASH, DASH, SP>> \o notes \o <<SP, DASH, DASH, ">", NL>>

\* Heading line, blank line, content, and the annotation exactly when the
\* notes are present and non-empty.
ExpectedBlock(slide) ==
    HeadingLine(slide.title) \o <<NL>> \o slide.content \o <<NL>>
    \o (IF slide.hasNotes /\ Len(slide.notes) > 0
        THEN AnnotationLine(slide.notes) ELSE <<>>)

\* C16: every stored Document is its header followed by one block per
\* slide in input order, each the heading line, a blank line, the content
\* and the annotation line exactly when notes is non-empty; there is one
\* delimiter line between consecutive blocks and none after the last.
C16_OneBlockPerSlide ==
    \A id \in DOMAIN presentations :
        LET deck == generated[id]
            doc == presentations[id].marpContent
            head == HeaderText(DefaultStyles, presentations[id].title)
            body == SubSeq(doc, Len(head) + 1, Len(doc))
        IN  /\ IsPrefix(head, doc)
            /\ body = Join([k \in 1..Len(deck) |-> ExpectedBlock(deck[k])],
                           <<NL>> \o Delimiter \o <<NL, NL>>)
            /\ Cardinality({ i \in 1..Len(body) : DelimiterLineAt(body, i) })
                  = IF deck = <<>> THEN 0 ELSE Len(deck) - 1
            /\ deck # <<>> => body[Len(body)] = NL /\ body[Len(body) - 1] # NL

\* C16 witness: a deck of a slide with notes and a slide whose notes are
\* the empty string was assembled and stored.
C16_Witness ==
    /\ request.route = "generate"
    /\ response = 200
    /\ Len(generated[request.id]) = 2
    /\ generated[request.id][1].notes = <<"n">>
    /\ generated[request.id][2].hasNotes
    /\ generated[request.id][2].notes = <<>>
    /\ presentations[request.id].slideCount = 2

\* The record createPresentation stored for id, from the slides of the
\* generate response.
CreatedRecord(id) ==
    createPresentation(EmptyStore, id,
        InsertPresentation(CompleteForm, generated[id]))[id]

\* C17: a preview, list, get or download request, whatever its range
\* expression, leaves the store as it was, every record equal to the value
\* written at creation; the filter's output is a new Document.
C17_StoredRecordImmutable ==
    [][request'.route \in {"preview", "list", "get", "pptx", "pdf"} =>
          /\ presentations' = presentations
          /\ \A id \in DOMAIN presentations' :
                presentations'[id] = CreatedRecord(id)]_vars

\* C17 witness: a download filtered the stored two-slide Document into a
\* different text and the record still holds the value written at creation.
C17_Witness ==
    /\ Downloaded
    /\ ranges.list # <<>>
    /\ presentations[request.id].slideCount = 2
    /\ filteredContent # presentations[request.id].marpContent
    /\ presentations[request.id] = CreatedRecord(request.id)

\* C18: get(k) returns the record create stored, until delete(k); delete(k)
\* answers true exactly when k is present and removes k and nothing else;
\* no other request removes or changes a record.
C18_StoreContract ==
    [][/\ (request'.route = "generate" /\ response' = 200) =>
             /\ request'.id \in DOMAIN presentations'
             /\ responseBody'.records =
                   {GenerateResponse(presentations'[request'.id],
                                     generated'[request'.id])}
       /\ request'.route = "get" =>
             IF request'.id \in DOMAIN presentations
             THEN /\ response' = 200
                  /\ responseBody'.records = {presentations[request'.id]}
             ELSE /\ response' = 404
                  /\ responseBody'.records = {}
       /\ request'.route = "delete" =>
             /\ (response' = 200) <=> (request'.id \in DOMAIN presentations)
             /\ request'.id \notin DOMAIN presentations'
       /\ \A k \in DOMAIN presentations :
             (request'.route = "delete" /\ request'.id = k)
                \/ (k \in DOMAIN presentations'
                      /\ presentations'[k] = presentations[k])]_vars

\* C18 witness: a get of a stored two-slide presentation answered 200 with
\* the stored record.
C18_Witness ==
    /\ request.route = "get"
    /\ response = 200
    /\ presentations[request.id].slideCount = 2
    /\ responseBody.records = {presentations[request.id]}

-----------------------------------------------------------------------------
(* Properties of the render operations (SpecRender) *)

\* The messages of the failures of the external tool and of its setup.
TransientMessages ==
    {SetupErrorMessage, SpawnErrorMessage, ReadErrorMessage}
    \cup { ExitMessage(version, code, stderr) :
             version \in ServiceVersions, code \in ExitCodes \ {0},
             stderr \in SeqsUpTo(StderrChunks, MaxChunks) }

\* C19: in a serverless environment generatePPTX and generatePDF reject
\* with the capability-unavailable error before the input file is written
\* or the tool is spawned, and the response carries a message no failure of
\* the tool carries.
C19_ServerlessFailsFast ==
    (serverless /\ render.op \in {"pptx", "pdf"}) =>
        /\ ~render.inputWritten
        /\ ~render.spawned
        /\ render.outcome = "rejected"
        /\ render.message = UnavailableMessage(render.op)
        /\ response = 500
        /\ responseBody.message = UnavailableMessage(render.op)
        /\ responseBody.message \notin TransientMessages

\* C20: when the tool has closed with a non-zero exit status the operation
\* has rejected, never resolved, with an error that carries the exit
\* status and what the tool wrote to stderr.
C20_NonZeroExitCarriesDiagnostics ==
    (render.phase = "settled" /\ render.exitCode > 0) =>
        /\ render.outcome = "rejected"
        /\ Includes(render.message, <<CodeText(render.exitCode)>>)
        /\ render.toolStderr # <<>> =>
              Includes(render.message, render.toolStderr)

-----------------------------------------------------------------------------
(* DownloadControls: the client's validator of the range expression *)

\* \d+
MatchesDigits(s) == s # <<>> /\ \A k \in 1..Len(s) : s[k] \in Digits

\* \d+(-\d+)?
MatchesToken(t) ==
    \/ MatchesDigits(t)
    \/ \E k \in 2..(Len(t) - 1) :
          /\ t[k] = DASH
          /\ MatchesDigits(SubSeq(t, 1, k - 1))
          /\ MatchesDigits(SubSeq(t, k + 1, Len(t)))

\* /^(\d+(-\d+)?)(,\s*\d+(-\d+)?)*$/.test(s): no token holds a comma, so
\* the pieces between the commas are the tokens, the later ones after
\* their leading whitespace.
RangePatternTest(s) ==
    LET pieces == Split(s, <<",">>)
    IN  /\ MatchesToken(pieces[1])
        /\ \A k \in 2..Len(pieces) : MatchesToken(TrimStart(pieces[k]))

\* validateSlideSelection() for the text of the input field
validateSlideSelection(slideSelection) ==
    IF Trim(slideSelection) = <<>> THEN TRUE
    ELSE RangePatternTest(Trim(slideSelection))

\* slideRanges: slideSelection.trim() || undefined, as the request carries
\* it (absent when the trimmed text is empty)
SentSlideRanges(slideSelection) ==
    IF Trim(slideSelection) = <<>> THEN [present |-> FALSE, text |-> <<>>]
    ELSE [present |-> TRUE, text |-> Trim(slideSelection)]

-----------------------------------------------------------------------------
(* Properties of the client's validator and the parser (SpecParse) *)

\* C27: every non-blank expression the client's validator accepts, sent
\* trimmed as the client sends it, is parsed by the server without dropping
\* a token: one range per comma-separated token.
C27_AcceptedMeansParsed ==
    (/\ Parsed
     /\ Trim(rangeString) # <<>>
     /\ validateSlideSelection(rangeString)
     /\ SentSlideRanges(rangeString).text = rangeString) =>
        Len(ranges.list) = Len(Split(rangeString, <<",">>))

-----------------------------------------------------------------------------
(* Further properties of the download routes (Spec) *)

\* C26: a download whose non-blank range expression loses every token to
\* the parser gets the empty range list and renders the whole stored
\* Document, the filter never run; the rendered Document differs from the
\* stored one only when the parser accepted at least one token.
C26_AllDroppedMeansFullExport ==
    Downloaded =>
        /\ (~BlankExpression /\ ranges.list = <<>>) =>
              /\ ranges.defined
              /\ filterLocals = NoLocals
              /\ filteredContent = presentations[request.id].marpContent
        /\ filteredContent # presentations[request.id].marpContent =>
              ranges.list # <<>>

\* C26 witness: the expression "a" reached the parser, which dropped its
\* only token, and the stored two-slide Document went to the renderer.
C26_Witness ==
    /\ Downloaded
    /\ request.slideRanges.present
    /\ request.slideRanges.text = <<"a">>
    /\ ranges = [defined |-> TRUE, list |-> <<>>]
    /\ presentations[request.id].slideCount = 2
    /\ filteredContent = presentations[request.id].marpContent

-----------------------------------------------------------------------------
(* Further properties of the filter on arbitrary text (SpecFilterRaw) *)

\* The number of slide blocks of the filter's result.
ResultSlideCount == Len(SlideContents(SplitBlocks(filteredContent)))

\* C28: filtering the filter's result with the one range [1, M], M the
\* number of slide blocks of that result, gives the result back.
C28_FilterIdempotent ==
    Filtered =>
        filterSlidesByRange(filteredContent,
            <<[start |-> 1, end |-> ResultSlideCount]>>) = filteredContent

\* C28 witness: the middle block of a three-block text was filtered away,
\* and the two-block result filtered with [1, 1] is the same text.
C28_Witness ==
    /\ Filtered
    /\ Doc = <<"a", NL, DASH, DASH, DASH, NL, "b", NL, DASH, DASH, DASH,
               NL, "c">>
    /\ ranges.list = <<[start |-> 2, end |-> 2]>>
    /\ filteredContent = <<"a">> \o JoinSeparator \o <<"c">>
    /\ ResultSlideCount = 1
    /\ filterSlidesByRange(filteredContent, <<[start |-> 1, end |-> 1]>>)
          = filteredContent

-----------------------------------------------------------------------------
(* Properties of the generate route (Spec) *)

\* C21: a generate request during which the template analysis or the
\* generation collaborator fails is answered with status 500 and a
\* non-empty error message, and leaves the store exactly as it was.
C21_FailedGenerationStoresNothing ==
    [][(/\ request'.route = "generate"
        /\ ~MissingFields(request'.form)
        /\ \/ request'.file = "rejected"
           \/ request'.reply.kind \in {"error", "thrown", "empty", "notjson"}
           \/ request'.reply = [kind |-> "array", slides |-> <<>>]) =>
            /\ response' = 500
            /\ responseBody'.kind = "error"
            /\ responseBody'.message # <<>>
            /\ responseBody'.records = {}
            /\ presentations' = presentations]_vars

\* C21 witness: with a presentation in the store, a later generation
\* failed in the collaborator and was answered 500 with its message.
C21_Witness ==
    /\ request.route = "generate"
    /\ request.reply = [kind |-> "array", slides |-> <<>>]
    /\ response = 500
    /\ responseBody.message = <<"No slides generated from OpenAI response">>
    /\ DOMAIN presentations # {}

\* The texts a stored record or a generate response carries.
TextsOf(record) ==
    { record[f] : f \in DOMAIN record \cap
                        {"title", "content", "guidance", "marpContent"} }
    \cup (IF "slides" \in DOMAIN record
          THEN UNION { {record.slides[k].title, record.slides[k].content,
                        record.slides[k].notes} :
                         k \in 1..Len(record.slides) }
          ELSE {})

\* The record has a field for the key, or one of its texts holds the key.
Discloses(record, key) ==
    \/ "apiKey" \in DOMAIN record
    \/ \E text \in TextsOf(record) : Includes(text, key)

\* C22: whatever key a generation request carried, no stored record and
\* no generate response holds it.
C22_ApiKeyNeverStored ==
    \A key \in ApiKeys \ {<<>>} :
        /\ \A id \in DOMAIN presentations :
              ~Discloses(presentations[id], key)
        /\ request.route = "generate" =>
              /\ ~Includes(responseBody.message, key)
              /\ \A record \in responseBody.records : ~Discloses(record, key)

\* C22 witness: a generation with the key "sk-2" succeeded, and its record
\* is in the store.
C22_Witness ==
    /\ request.route = "generate"
    /\ request.form.apiKey = <<"sk-2">>
    /\ response = 200
    /\ request.id \in DOMAIN presentations
    /\ presentations[request.id].content = <<"text">>
    /\ responseBody.records # {}

-----------------------------------------------------------------------------
(* Properties of the render invocations side by side (SpecInFlight) *)

\* The invocation has been made and has callbacks still to run.
InFlight(i) == calls[i].phase \in {"setup", "running", "reading"}

\* C23: two invocations in flight at the same time have different input
\* paths and different output paths, and an invocation that resolved
\* received the rendering of its own Document.
C23_DistinctTempPaths ==
    /\ \A i, j \in 1..Len(calls) :
          (i # j /\ InFlight(i) /\ InFlight(j)) =>
              /\ calls[i].inputFile # calls[j].inputFile
              /\ calls[i].outputFile # calls[j].outputFile
    /\ \A i \in 1..Len(calls) :
          calls[i].outcome = "resolved" => calls[i].value = Document(i)

\* The promise of invocation i has settled.
Settled(i) == i <= Len(calls) /\ calls[i].outcome # "pending"

\* 'close' or 'error' was delivered for the process of invocation i, or
\* its setup failed.
Delivered(i) ==
    /\ i <= Len(calls)
    /\ \/ calls[i].phase \in {"reading", "done"}
       \/ calls[i].errorDelivered

C25_TempFilesRemoved ==
    \A i \in 1..Len(calls) :
        (calls[i].outcome # "pending" /\ calls[i].cause # "setup") =>
            calls[i].unlinkRequested =
                {calls[i].inputFile, calls[i].outputFile}

-----------------------------------------------------------------------------
(* Properties of the Home page (SpecClient) *)

C30_IdKeptUntilTextChanges ==
    [][(home.currentPresentationId # 0 /\ home'.currentPresentationId = 0) =>
          \/ textInput.content # textInput.ranContent
          \/ textInput.guidance # textInput.ranGuidance]_vars

=============================================================================
